---- MODULE Spec2Model ----
(***************************************************************************)
(* Model of path-finder/src/App.tsx: the App component's state (topic,     *)
(* graph, loading, error, selected), the submit handler with its single    *)
(* fetch to the generative-language endpoint, the render adapter (fgData   *)
(* useMemo), the auto-fit effect with its 50 ms timer, and the click       *)
(* handlers and node drawing callback handed to ForceGraph2D.              *)
(*                                                                         *)
(* Encoding.  A value that may be null/undefined is a sequence of length   *)
(* <= 1: Null is <<>>, Some(x) is <<x>>.  A JavaScript string that is      *)
(* built by concatenation is a sequence of string pieces; the topic is a   *)
(* sequence of characters so that trim() is computed.                      *)
(***************************************************************************)
EXTENDS Naturals, Sequences, FiniteSets

VARIABLES
  topic,      \* useState('')                       App.tsx:30
  graph,      \* useState<GraphData | null>(null)   App.tsx:31
  loading,    \* useState(false)                    App.tsx:32
  error,      \* useState<string | null>(null)      App.tsx:33
  selected,   \* useState<FGNode | null>(null)      App.tsx:35
  API_KEY,    \* import.meta.env.VITE_GEMINI_API_KEY, fixed per build
  inflight,   \* prompts of the fetch calls that have not settled yet
  fitTimers,  \* render-model data of each pending setTimeout of the auto-fit effect
  mounted,    \* FALSE once a render has thrown and React has removed the tree
  lastEvent   \* history: the event handled last and its input

vars == <<topic, graph, loading, error, selected, API_KEY, inflight,
          fitTimers, mounted, lastEvent>>

----------------------------------------------------------------------------
(* Bounds *)

MaxTopicLen == 2
MaxNodes == 2
MaxEdges == 1

----------------------------------------------------------------------------
(* Values *)

Null == <<>>
Some(x) == <<x>>

SeqsUpTo(S, n) == UNION {[1..k -> S] : k \in 0..n}

Chars == {" ", "\n", "a"}
Topics == SeqsUpTo(Chars, MaxTopicLen)

IsSpace(c) == c \in {" ", "\n"}

RECURSIVE TrimStart(_)
TrimStart(s) ==
  IF s # <<>> /\ IsSpace(Head(s)) THEN TrimStart(Tail(s)) ELSE s

RECURSIVE TrimEnd(_)
TrimEnd(s) ==
  IF s # <<>> /\ IsSpace(s[Len(s)]) THEN TrimEnd(SubSeq(s, 1, Len(s) - 1)) ELSE s

Trim(s) == TrimEnd(TrimStart(s))

\* The environment values of the key: undefined, the empty string, a key.
ApiKeys == {Null, Some(""), Some("k")}

\* GraphNode / GraphEdge values the provider may return.
GraphNodes ==
  { [id |-> "topic", label |-> "T", description |-> Some("d")],
    [id |-> "n1",    label |-> "L", description |-> Null],
    [id |-> "n2",    label |-> "M", description |-> Some("e")] }

GraphEdges ==
  { [from |-> "topic", to |-> "n1",    relation |-> Some("r")],
    [from |-> "n1",    to |-> "ghost", relation |-> Null] }

\* A parsed JSON value, as far as the component looks into it: its
\* truthiness and its nodes / edges members (Null when the member is absent).
JsonNull == [type |-> "null", nodes |-> Null, edges |-> Null]
JsonFalse == [type |-> "false", nodes |-> Null, edges |-> Null]
JsonObject(ns, es) == [type |-> "object", nodes |-> ns, edges |-> es]

GraphDatas ==
  { JsonObject(Some(ns), Some(es)) :
      ns \in SeqsUpTo(GraphNodes, MaxNodes), es \in SeqsUpTo(GraphEdges, MaxEdges) }

\* Valid JSON that is not of the GraphData shape.
MisshapenValues ==
  { JsonObject(Null, Null),
    JsonObject(Some(<<>>), Null),
    JsonFalse,
    JsonNull }

JsonValues == GraphDatas \cup MisshapenValues

----------------------------------------------------------------------------
(* The provider's response and the try block of handleSubmit *)

\* The text of candidates[0].content.parts[0]: empty, not JSON, or JSON
\* denoting a value.
EmptyText == [empty |-> TRUE, syntaxOk |-> FALSE, value |-> JsonNull]
GarbageText == [empty |-> FALSE, syntaxOk |-> FALSE, value |-> JsonNull]
JsonText(v) == [empty |-> FALSE, syntaxOk |-> TRUE, value |-> v]

Texts == {EmptyText, GarbageText} \cup {JsonText(v) : v \in JsonValues}

Statuses == {"404", "500"}

NetworkFailure ==
  [rejected |-> TRUE, ok |-> FALSE, status |-> "", jsonBody |-> FALSE, text |-> Null]
HttpFailure(st) ==
  [rejected |-> FALSE, ok |-> FALSE, status |-> st, jsonBody |-> TRUE, text |-> Null]
BadBody ==
  [rejected |-> FALSE, ok |-> TRUE, status |-> "200", jsonBody |-> FALSE, text |-> Null]
Envelope(t) ==
  [rejected |-> FALSE, ok |-> TRUE, status |-> "200", jsonBody |-> TRUE, text |-> t]

Responses ==
  {NetworkFailure, BadBody}
    \cup {HttpFailure(st) : st \in Statuses}
    \cup {Envelope(t) : t \in {Null} \cup {Some(x) : x \in Texts}}

MissingKeyMessage == <<"Missing Gemini API key. Set VITE_GEMINI_API_KEY in .env">>
FetchFailedMessage == <<"Failed to fetch">>
StatusText(st) == IF st = "404" THEN "Not Found" ELSE "Internal Server Error"
HttpErrorMessage(r) == <<"Gemini API error: ", r.status, " ", StatusText(r.status)>>
EmptyResponseMessage == <<"Empty response from model">>
SyntaxErrorMessage == <<"Unexpected token o in JSON at position 1">>

\* JSON.parse: throws a SyntaxError on text that is not JSON, otherwise
\* returns the value the text denotes.
JSONParse(text) ==
  IF text.syntaxOk
    THEN [threw |-> FALSE, message |-> <<>>, value |-> text.value]
    ELSE [threw |-> TRUE, message |-> SyntaxErrorMessage, value |-> JsonNull]

Threw(msg) == [threw |-> TRUE, message |-> msg, value |-> JsonNull]

\* Lines 110-128: what the try block does with a settled fetch: it throws
\* an Error with a message, or reaches setGraph with the parsed value.
TryBlock(r) ==
  IF r.rejected THEN Threw(FetchFailedMessage)
  ELSE IF ~r.ok THEN Threw(HttpErrorMessage(r))
  ELSE IF ~r.jsonBody THEN Threw(SyntaxErrorMessage)
  ELSE IF r.text = Null \/ r.text[1].empty THEN Threw(EmptyResponseMessage)
  ELSE JSONParse(r.text[1])

\* The state value setGraph(parsed) stores: JSON null is the null state.
GraphState(v) == IF v.type = "null" THEN Null ELSE Some(v)

PromptHead == "You are an academic research assistant. ... Research topic: \""
PromptTail == "\""
Prompt(t) == <<PromptHead>> \o t \o <<PromptTail>>

----------------------------------------------------------------------------
(* Render adapter: the fgData useMemo *)

Truthy(v) == v.type = "object"

FGNodeSwapped(n) == [id |-> n.label, name |-> n.id, description |-> n.description]

FGNode(n) == [id |-> n.id, name |-> n.label, description |-> n.description]

FGLink(e) == [source |-> e.from, target |-> e.to, relation |-> e.relation]

\* graph.nodes.map / graph.edges.map on a member that is absent throws a
\* TypeError during render.
FgThrows(g) ==
  /\ g # Null
  /\ Truthy(g[1])
  /\ (g[1].nodes = Null \/ g[1].edges = Null)

FgData(g) ==
  IF g = Null \/ ~Truthy(g[1]) \/ FgThrows(g) THEN Null
  ELSE LET ns == g[1].nodes[1]
           es == g[1].edges[1]
       IN Some([nodes |-> [i \in 1..Len(ns) |-> FGNode(ns[i])],
                links |-> [i \in 1..Len(es) |-> FGLink(es[i])]])

----------------------------------------------------------------------------
(* Auto-fit effect (deps [fgData]) and the commit of a render *)

ClearNothing(timers) == timers

\* The effect's cleanup: clearTimeout of the timer its last run scheduled.
ClearTimeout(timers) ==
  IF timers = <<>> THEN <<>> ELSE SubSeq(timers, 1, Len(timers) - 1)

\* fgData is a fresh object whenever it is recomputed to a non-null value,
\* so the effect re-runs unless fgData was null and stays null.  fgRef.current
\* is set exactly while ForceGraph2D is rendered, i.e. while fgData is non-null.
AutoFitEffect(oldFg, newFg, timers) ==
  IF oldFg = Null /\ newFg = Null THEN timers
  ELSE IF newFg = Null THEN ClearTimeout(timers)
  ELSE Append(ClearTimeout(timers), newFg[1])

\* The render after setGraph: the useMemo either throws, which removes the
\* whole tree (there is no error boundary) and runs the effect cleanups, or
\* yields the new fgData, on which the effect runs.
Commit(old, new) ==
  IF FgThrows(new)
    THEN /\ mounted' = FALSE
         /\ fitTimers' = ClearTimeout(fitTimers)
    ELSE /\ mounted' = mounted
         /\ fitTimers' = AutoFitEffect(FgData(old), FgData(new), fitTimers)

----------------------------------------------------------------------------
(* nodeCanvasObject: the radius, fill and font size a node is drawn with *)

NodeCanvasObjectSelectedFirst(node, sel) ==
  LET isTopic == node.id = "topic"
      isSelected == sel # Null /\ sel[1].id = node.id
  IN [r |-> (IF isTopic THEN 10 ELSE 7) + (IF isSelected THEN 3 ELSE 0),
      fontSize |-> IF isTopic THEN 16 ELSE 13,
      fillStyle |-> IF isSelected THEN "#1f2937"
                    ELSE IF isTopic THEN "#111827" ELSE "#374151"]

NodeCanvasObject(node, sel) ==
  LET isTopic == node.id = "topic"
      isSelected == sel # Null /\ sel[1].id = node.id
  IN [r |-> (IF isTopic THEN 10 ELSE 7) + (IF isSelected THEN 3 ELSE 0),
      fontSize |-> IF isTopic THEN 16 ELSE 13,
      fillStyle |-> IF isTopic THEN "#111827"
                    ELSE IF isSelected THEN "#1f2937" ELSE "#374151"]

----------------------------------------------------------------------------
(* Initial state and the event handlers *)

Event(op, arg) == [op |-> op, arg |-> arg]

Init ==
  /\ topic = <<>>
  /\ graph = Null
  /\ loading = FALSE
  /\ error = Null
  /\ selected = Null
  /\ API_KEY \in ApiKeys
  /\ inflight = <<>>
  /\ fitTimers = <<>>
  /\ mounted = TRUE
  /\ lastEvent = Event("init", Null)

\* onChange of the textarea (line 159); the textarea is never disabled.
SetTopic(t) ==
  /\ mounted
  /\ topic' = t
  /\ lastEvent' = Event("type", Some(t))
  /\ UNCHANGED <<graph, loading, error, selected, API_KEY, inflight, fitTimers, mounted>>

SubmitNeverDisabled == FALSE

\* disabled={loading} on the submit button (line 162), the form's only
\* way to be submitted.
SubmitDisabled == loading

IsBlankUntrimmed(t) == t = <<>>

\* !topic.trim() (line 73)
IsBlank(t) == Trim(t) = <<>>

KeyNeverMissing(k) == FALSE

\* !API_KEY (line 75): undefined and the empty string are both falsy.
KeyMissing(k) == k = Null \/ k[1] = ""

ResetKeepingSelection ==
  /\ loading' = TRUE
  /\ error' = Null
  /\ graph' = Null
  /\ selected' = selected

ResetKeepingGraph ==
  /\ loading' = TRUE
  /\ error' = Null
  /\ graph' = graph
  /\ selected' = Null

\* Lines 80-83, batched into one render.
ResetForRequest ==
  /\ loading' = TRUE
  /\ error' = Null
  /\ graph' = Null
  /\ selected' = Null

\* handleSubmit up to the await (lines 71-120).
Submit ==
  /\ mounted
  /\ ~SubmitDisabled
  /\ lastEvent' = Event("submit", Some(topic))
  /\ IF IsBlank(topic)
       THEN UNCHANGED <<graph, loading, error, selected, inflight, fitTimers, mounted>>
     ELSE IF KeyMissing(API_KEY)
       THEN /\ error' = Some(MissingKeyMessage)
            /\ UNCHANGED <<graph, loading, selected, inflight, fitTimers, mounted>>
     ELSE /\ ResetForRequest
          /\ inflight' = Append(inflight, Prompt(topic))
          /\ Commit(graph, graph')
  /\ UNCHANGED <<topic, API_KEY>>

CatchKeepingError(res) == error

\* catch (lines 130-132): setError(err.message ?? 'Unknown error')
Catch(res) == Some(res.message)

\* handleSubmit after the await (lines 122-135) for the i-th pending fetch
\* settling with response r; setGraph / setError and setLoading(false) are
\* batched into one render.  Once the tree is gone the setters do nothing.
Settle(i, r) ==
  /\ i \in 1..Len(inflight)
  /\ inflight' = SubSeq(inflight, 1, i - 1) \o SubSeq(inflight, i + 1, Len(inflight))
  /\ lastEvent' = Event("settle", Some(r))
  /\ IF mounted
       THEN LET res == TryBlock(r)
            IN /\ graph' = IF res.threw THEN graph ELSE GraphState(res.value)
               /\ error' = IF res.threw THEN Catch(res) ELSE error
               /\ loading' = FALSE
               /\ Commit(graph, graph')
       ELSE UNCHANGED <<graph, error, loading, mounted, fitTimers>>
  /\ UNCHANGED <<topic, selected, API_KEY>>

\* onNodeClick (line 186): ForceGraph2D exists only while fgData is non-null
\* and reports one of the nodes it was given.
NodeClick(i) ==
  /\ mounted
  /\ FgData(graph) # Null
  /\ i \in 1..Len(FgData(graph)[1].nodes)
  /\ selected' = Some(FgData(graph)[1].nodes[i])
  /\ lastEvent' = Event("nodeClick", Some(FgData(graph)[1].nodes[i]))
  /\ UNCHANGED <<topic, graph, loading, error, API_KEY, inflight, fitTimers, mounted>>

\* onBackgroundClick (line 187)
BackgroundClick ==
  /\ mounted
  /\ FgData(graph) # Null
  /\ selected' = Null
  /\ lastEvent' = Event("backgroundClick", Null)
  /\ UNCHANGED <<topic, graph, loading, error, API_KEY, inflight, fitTimers, mounted>>

\* The 50 ms timer of the auto-fit effect fires (lines 141-143): zoomToFit on
\* whatever fgRef.current shows now; the timer was scheduled for Head(fitTimers).
FitFires ==
  /\ fitTimers # <<>>
  /\ fitTimers' = Tail(fitTimers)
  /\ lastEvent' = Event("fit", Some(Head(fitTimers)))
  /\ UNCHANGED <<topic, graph, loading, error, selected, API_KEY, inflight, mounted>>

Next ==
  \/ \E t \in Topics : SetTopic(t)
  \/ Submit
  \/ \E i \in 1..Len(inflight), r \in Responses : Settle(i, r)
  \/ \E i \in 1..MaxNodes : NodeClick(i)
  \/ BackgroundClick
  \/ FitFires

Spec == Init /\ [][Next]_vars

----------------------------------------------------------------------------
(* Properties *)

Rendered == FgData(graph) # Null
RenderedNodes == FgData(graph)[1].nodes
RenderedLinks == FgData(graph)[1].links

OnlyWhitespace(t) == \A i \in 1..Len(t) : t[i] \in {" ", "\n"}
KeyAbsentOrEmpty == API_KEY = Null \/ API_KEY = Some("")

\* C1: an accepted submission (enabled control, non-blank topic, key present)
\* issues exactly one request carrying the prompt of the topic; no other
\* step issues a request (a failed request is not re-issued); at most one
\* request is in flight, and while one is, loading is true and the submit
\* control is disabled.
C1_SingleRequestPerSubmission ==
  /\ [](/\ Len(inflight) <= 1
        /\ (inflight # <<>> => loading /\ SubmitDisabled))
  /\ [][IF lastEvent'.op = "submit" /\ ~OnlyWhitespace(topic) /\ ~KeyAbsentOrEmpty
          THEN inflight' = Append(inflight, Prompt(topic))
          ELSE Len(inflight') <= Len(inflight)]_vars

C1_Witness ==
  /\ lastEvent.op = "submit"
  /\ Len(inflight) = 1
  /\ loading

IsHttpFailure(r) == ~r.rejected /\ ~r.ok
IsMissingText(r) == ~r.rejected /\ r.ok /\ r.jsonBody /\ r.text = Null
IsParseFailure(r) ==
  /\ ~r.rejected /\ r.ok /\ r.jsonBody
  /\ r.text # Null /\ ~r.text[1].empty /\ ~r.text[1].syntaxOk

\* C2: right after a request settles with a non-success status, without the
\* text field, or with text that is not JSON, the error is non-null (it
\* contains the status code in the HTTP case and is the parse error's
\* message in the parse case), graph is null and nothing is rendered.
C2_FailureReported ==
  lastEvent.op = "settle" =>
    LET r == lastEvent.arg[1] IN
      (IsHttpFailure(r) \/ IsMissingText(r) \/ IsParseFailure(r)) =>
        /\ error # Null
        /\ graph = Null
        /\ ~Rendered
        /\ IsHttpFailure(r) => \E k \in 1..Len(error[1]) : error[1][k] = r.status
        /\ IsParseFailure(r) => error[1] = SyntaxErrorMessage

C2_Witness ==
  /\ lastEvent.op = "settle"
  /\ IsHttpFailure(lastEvent.arg[1])
  /\ error # Null

\* C3: a submit whose topic is empty or only whitespace issues no request
\* and changes no state variable.
C3_BlankSubmitNoEffect ==
  [][lastEvent'.op = "submit" /\ OnlyWhitespace(topic) =>
       UNCHANGED <<topic, graph, loading, error, selected, inflight, fitTimers, mounted>>]_vars

C3_Witness ==
  /\ lastEvent.op = "submit"
  /\ lastEvent.arg[1] # <<>>
  /\ OnlyWhitespace(lastEvent.arg[1])

\* C4 (as claimed): with the key absent or empty no request is ever issued,
\* loading is never true, the submit control stays enabled, and right after
\* a submit of a non-empty topic an error message is shown.
C4_NonEmptyTopicReported ==
  KeyAbsentOrEmpty =>
    /\ inflight = <<>>
    /\ ~loading
    /\ mounted /\ ~SubmitDisabled
    /\ (lastEvent.op = "submit" /\ topic # <<>>) => error # Null

\* C4 (amended): with the key absent or empty no request is ever issued,
\* loading is never true, the submit control stays enabled, and right after
\* a submit of a topic that is non-empty after trimming the missing-key
\* message is shown.
C4_MissingKeyReported ==
  KeyAbsentOrEmpty =>
    /\ inflight = <<>>
    /\ ~loading
    /\ mounted /\ ~SubmitDisabled
    /\ (lastEvent.op = "submit" /\ ~OnlyWhitespace(topic)) => error = Some(MissingKeyMessage)

C4_Witness ==
  /\ KeyAbsentOrEmpty
  /\ lastEvent.op = "submit"
  /\ ~OnlyWhitespace(topic)
  /\ error # Null

\* C5: a node click selects the clicked node, a node of the rendered graph;
\* a background click clears the selection; right after a generation that
\* did not fail the selection is none; nothing else changes the selection
\* except the reset of an accepted submit.
C5_SelectionStateMachine ==
  [][/\ lastEvent'.op = "nodeClick" =>
          /\ selected' # Null
          /\ selected'[1].id = lastEvent'.arg[1].id
          /\ \E i \in 1..Len(RenderedNodes) : RenderedNodes[i] = selected'[1]
     /\ lastEvent'.op = "backgroundClick" => selected' = Null
     /\ (lastEvent'.op = "settle" /\ error' = Null) => selected' = Null
     /\ selected' # selected =>
          \/ lastEvent'.op \in {"nodeClick", "backgroundClick"}
          \/ lastEvent'.op = "submit" /\ selected' = Null]_vars

C5_Witness ==
  /\ lastEvent.op = "settle"
  /\ Rendered
  /\ Len(RenderedNodes) >= 1
  /\ selected = Null

\* C6 (as claimed): after a request settles, whatever the outcome, the tree
\* is still there, loading is false and the submit control is enabled.
C6_InteractiveAfterSettle ==
  lastEvent.op = "settle" => mounted /\ ~loading /\ ~SubmitDisabled

\* C7: at most one fit timer is pending, it was scheduled for the render-model
\* data shown now, and a fit that fires was scheduled for the data shown when
\* it fires.
C7_OnlyLatestFit ==
  /\ Len(fitTimers) <= 1
  /\ \A k \in 1..Len(fitTimers) : Rendered /\ fitTimers[k] = FgData(graph)[1]
  /\ lastEvent.op = "fit" => Rendered /\ lastEvent.arg[1] = FgData(graph)[1]

C7_Witness ==
  /\ lastEvent.op = "fit"
  /\ Rendered
  /\ fitTimers = <<>>

BackNode(n) == [id |-> n.id, label |-> n.name, description |-> n.description]
BackLink(l) == [from |-> l.source, to |-> l.target, relation |-> l.relation]
IsGraphData(g) == g # Null /\ Truthy(g[1]) /\ g[1].nodes # Null /\ g[1].edges # Null

DrawnAsTopic(i) ==
  LET d == NodeCanvasObject(RenderedNodes[i], selected)
  IN d.fillStyle = "#111827" /\ d.fontSize = 16 /\ d.r \in {10, 13}

DrawnAsRelated(i) ==
  LET d == NodeCanvasObject(RenderedNodes[i], selected)
  IN d.fillStyle \in {"#374151", "#1f2937"} /\ d.fontSize = 13 /\ d.r \in {7, 10}

HasTopicId(i) == RenderedNodes[i].id = "topic"

\* C9 (as claimed): in a rendered graph with a node, exactly one node is
\* drawn as the topic node: the node with id "topic", or the first node when
\* no node has that id; the others are drawn as related nodes.
C9_ExactlyOneTopicNode ==
  (Rendered /\ Len(RenderedNodes) >= 1) =>
    \E t \in 1..Len(RenderedNodes) :
      /\ HasTopicId(t) \/ (t = 1 /\ \A i \in 1..Len(RenderedNodes) : ~HasTopicId(i))
      /\ DrawnAsTopic(t)
      /\ \A i \in 1..Len(RenderedNodes) : i # t => DrawnAsRelated(i)

\* C9 (amended): a node is drawn as the topic node exactly when its id is
\* "topic" and as a related node otherwise, selected or not; so exactly one
\* node is drawn as the topic node when exactly one has that id, and none
\* when none has it.
C9_TopicNodeById ==
  Rendered =>
    /\ \A i \in 1..Len(RenderedNodes) :
         /\ DrawnAsTopic(i) <=> HasTopicId(i)
         /\ DrawnAsRelated(i) <=> ~HasTopicId(i)
    /\ Cardinality({i \in 1..Len(RenderedNodes) : DrawnAsTopic(i)})
         = Cardinality({i \in 1..Len(RenderedNodes) : HasTopicId(i)})

C9_Witness ==
  /\ Rendered
  /\ Len(RenderedNodes) >= 1
  /\ \A i \in 1..Len(RenderedNodes) : ~HasTopicId(i) /\ DrawnAsRelated(i)

\* C10: while loading, graph, error and selection are all null; an error
\* implies a null graph; a selection implies a rendered graph that contains
\* a node with the selected id.
C10_StateInvariant ==
  /\ loading => graph = Null /\ error = Null /\ selected = Null
  /\ error # Null => graph = Null
  /\ selected # Null =>
       /\ graph # Null
       /\ Rendered
       /\ \E i \in 1..Len(RenderedNodes) : RenderedNodes[i].id = selected[1].id

C10_Witness ==
  /\ selected # Null
  /\ Rendered
  /\ lastEvent.op = "nodeClick"

====
